---- MODULE Spec2Model ----
(***************************************************************************)
(* Model of subradar's invert.py: the forward predictor                   *)
(* srf2power_norminc and the inverse grid solver power2srf_norminc.       *)
(*                                                                         *)
(* Floating-point values are modelled as extended numbers: a finite       *)
(* integer magnitude, NaN, +Inf or -Inf, with IEEE comparison (every      *)
(* comparison with NaN is false).  The external collaborators (the        *)
(* scattering model, the quadrature, utils.R, Signal) are the             *)
(* environment: the values they deliver are drawn nondeterministically.   *)
(***************************************************************************)
EXTENDS Integers, Sequences, FiniteSets, TLC

\* ------------------------------------------------------------------ bounds
\* Largest grid size n explored (the code's default is 50).
MaxN == 3

\* ------------------------------------------------------- extended numbers
NaN == [k |-> "nan", v |-> 0]
PInf == [k |-> "inf", v |-> 1]
NInf == [k |-> "inf", v |-> -1]
Fin(x) == [k |-> "fin", v |-> x]

IsNaN(a) == a.k = "nan"
\* np.isinf
IsInf(a) == a.k = "inf"

\* IEEE a < b: false when either side is NaN.
Lt(a, b) ==
    /\ ~IsNaN(a)
    /\ ~IsNaN(b)
    /\ \/ a.k = "fin" /\ b.k = "fin" /\ a.v < b.v
       \/ a.k = "fin" /\ b = PInf
       \/ a = NInf /\ b.k = "fin"
       \/ a = NInf /\ b = PInf

\* 10*log10(x) on linear powers 1, 10, 100, 1000 (0, 10, 20, 30 dB);
\* log10(0) = -Inf, log10 of a negative number = NaN.
Log10x10(x) ==
    IF IsNaN(x) THEN NaN
    ELSE IF x = PInf THEN PInf
    ELSE IF x = NInf THEN NaN
    ELSE IF x.v < 0 THEN NaN
    ELSE IF x.v = 0 THEN NInf
    ELSE IF x.v < 10 THEN Fin(0)
    ELSE IF x.v < 100 THEN Fin(10)
    ELSE IF x.v < 1000 THEN Fin(20)
    ELSE Fin(30)

\* 10**(x/10.) on dB values that are multiples of 10.
Pow10Tenth(x) ==
    IF IsNaN(x) THEN NaN
    ELSE IF x = PInf THEN PInf
    ELSE IF x = NInf THEN Fin(0)
    ELSE IF x.v <= 0 THEN Fin(1)
    ELSE IF x.v <= 10 THEN Fin(10)
    ELSE IF x.v <= 20 THEN Fin(100)
    ELSE Fin(1000)

\* ------------------------------------------------------------------ state
VARIABLES
    \* arguments of power2srf_norminc
    n, pc, pn, db, kind, cl_logrange,
    \* r**2 as delivered by utils.R for each permittivity sample
    r2,
    \* locals of power2srf_norminc
    pc_lin, sh, cl, cl_out, jn, i, j, tmp,
    \* control position and returned value
    pcs, result,
    \* history: predictor calls made per permittivity index, the bound jn
    \* on entering the current scan, the indices visited by the outer
    \* loop, the db/kind arguments of the latest predictor call
    \* and the scattering evaluation it got, whether a predictor call raised
    calls, jn0, visited, lastArgs, lastScat, failed,
    \* whether the run started with db = True and the default kind on the
    \* same other arguments, given the same scattering evaluations, has had
    \* the same pc, predictor arguments and predictions so far
    same,
    \* the variant of the search that restarts every permittivity index
    \* from jn = n, run on the same predicted powers: the index it accepts
    \* per permittivity index (-1: none), its scan position, whether its
    \* scan of the current permittivity index is over
    indep, gj, gdone,
    \* round trip: the grid indices of ep* and cl*, and whether every
    \* prediction seen so far at ep* lies strictly below the target exactly
    \* for the grid indices below that of cl*
    istar, jstar, rtOk

core == <<n, pc, pn, db, kind, cl_logrange, r2, pc_lin, sh, cl, cl_out, jn,
          i, j, tmp, pcs, result, calls, jn0, visited, lastArgs, lastScat,
          failed, same>>
indepVars == <<indep, gj, gdone>>
rtVars == <<istar, jstar, rtOk>>
vars == <<core, indepVars, rtVars>>

inputs == <<n, pc, pn, db, kind, cl_logrange, r2>>

\* ----------------------------------------------------- environment values
DefaultKind == "isotropic gaussian"
Kinds == {DefaultKind, "other"}

\* Linear incoherent powers quad(...)[0] * nRCS(0) the scattering model can
\* deliver: negative (dB NaN), zero (dB -Inf), 1 (0 dB), 100 (20 dB), +Inf.
LinVals == {Fin(-1), Fin(0), Fin(1), Fin(100), PInf}
\* nRCS under a non-default kind
AltLinVals == {Fin(1000)}
\* One evaluation of the scattering capability: the linear incoherent power
\* it yields under each kind.
Scatterings == {[kd \in Kinds |-> IF kd = DefaultKind THEN a ELSE b] :
                    a \in LinVals, b \in AltLinVals}

\* Targets handed to the solver, in dB: pn equal to one of the predictor's
\* finite outputs, +Inf (every finite prediction lies below it) or NaN.
PnTargets == {Fin(20), PInf, NaN}
PcTargets == {Fin(20)}
\* r**2 in the unit in which 10**(pc/10.) is 100: below pc (no real rms
\* height), equal to pc (rms height 0), above pc.
R2Vals == {Fin(10), Fin(100), Fin(1000)}

RECURSIVE Exp10(_)
Exp10(e) == IF e <= 0 THEN 1 ELSE 10 * Exp10(e - 1)

\* np.linspace(lo, hi, m)[idx] for |hi - lo| = m - 1 (unit steps), or m = 1
Linspace(lo, hi, m, idx) ==
    IF m = 1 THEN lo ELSE IF hi >= lo THEN lo + idx ELSE lo - idx

\* ------------------------------------------------ srf2power_norminc
\* The 'pn' entry of the forward predictor's result: the linear incoherent
\* power of the requested kind, converted to dB when db is set.
srf2power_norminc(db_, kind_, scat) ==
    LET pn_lin == scat[kind_]
    IN  IF db_ THEN Log10x10(pn_lin) ELSE pn_lin

\* ------------------------------------------------ power2srf_norminc
\* Variant: the target is converted only when db is set.
PcLinearIfDb(pc_, db_) == IF db_ THEN Pow10Tenth(pc_) ELSE pc_

\* pc = 10**(pc/10.)
PcLinear(pc_, db_) == Pow10Tenth(pc_)

\* sqrt(log(r**2/pc)) / (2*s.wk*cos(s.th)) for finite positive wk*cos(th):
\* NaN when r**2/pc < 1, 0 when r**2 = pc, positive otherwise.
ShFormula(rsq, pcl) ==
    IF IsNaN(rsq) \/ IsNaN(pcl) THEN NaN
    ELSE IF Lt(rsq, pcl) THEN NaN
    ELSE IF rsq = pcl THEN Fin(0)
    ELSE IF pcl.k = "fin" /\ pcl.v > 0 /\ rsq.k = "fin" THEN Fin(rsq.v \div pcl.v)
    ELSE PInf

\* Variant: NaN heights are left in place.
ShCleanKeep(x) == x

\* sh[np.isnan(sh)] = 0
ShClean(x) == IF IsNaN(x) THEN Fin(0) ELSE x

\* cl = 10**np.linspace(cl_logrange[0], cl_logrange[1], n)
ClGrid(rng, m) ==
    [idx \in 0..(m - 1) |-> Fin(Exp10(Linspace(rng[1], rng[2], m, idx)))]

\* ep = np.linspace(ep_range[0], ep_range[1], n), in steps of one unit
EpGrid(m) == [idx \in 0..(m - 1) |-> Fin(Linspace(1, m, m, idx))]

\* reversed(range(0, jn, 1)): the first index scanned
ScanStart(jn_) == jn_ - 1

\* Variant: db and kind are forwarded to the predictor.
PredictorArgsForward(db_, kind_) == [db |-> db_, kind |-> kind_]

\* srf2power_norminc(model, approx, gain=gain, th_max=th_max, wf=wf,
\*                   ep2=ep[i], sh=sh[i], cl=cl[j])['pn']
\* neither db nor kind is forwarded: the predictor's defaults apply.
PredictorArgs(db_, kind_) == [db |-> TRUE, kind |-> DefaultKind]

\* Variant: the infinity test is dropped.
AcceptInf(tmp_, pn_) == Lt(tmp_, pn_)

\* Variant: the comparison is not strict.
AcceptNonStrict(tmp_, pn_) ==
    (Lt(tmp_, pn_) \/ (tmp_ = pn_ /\ ~IsNaN(tmp_))) /\ ~IsInf(tmp_)

\* (tmp < pn) and ~np.isinf(tmp)
Accept(tmp_, pn_) == Lt(tmp_, pn_) /\ ~IsInf(tmp_)

\* Variant: the bound is never shrunk.
NextBoundKeep(j_, n_) == n_

\* Variant: the bound is set one too high.
NextBoundAbove(j_, n_) == IF j_ + 2 > n_ THEN n_ ELSE j_ + 2

\* Variant: the bound is set to the accepted index itself.
NextBoundBelow(j_, n_) == IF j_ < 1 THEN 1 ELSE j_

\* jn = j+1; if jn > n: jn = n
NextBound(j_, n_) == IF j_ + 1 > n_ THEN n_ ELSE j_ + 1

\* The predictor call made under (db, kind) on the evaluation scat carries
\* the arguments and yields the value of the call made under db = True and
\* the default kind.
SameCall(scat) ==
    LET a == PredictorArgs(db, kind)
        b == PredictorArgs(TRUE, DefaultKind)
    IN  /\ a = b
        /\ srf2power_norminc(a.db, a.kind, scat) = srf2power_norminc(b.db, b.kind, scat)

NoArgs == [db |-> FALSE, kind |-> "none"]
NoScat == [kd \in Kinds |-> NaN]
NoResult == [ep |-> <<>>, sh |-> <<>>, cl |-> <<>>]

\* Lines 68-80: the state on reaching the outer loop.
Setup ==
    /\ pc_lin = PcLinear(pc, db)
    /\ sh = [idx \in 0..(n - 1) |-> ShClean(ShFormula(r2[idx], pc_lin))]
    /\ cl = ClGrid(cl_logrange, n)
    /\ cl_out = [idx \in 0..(n - 1) |-> NaN]
    /\ jn = n
    /\ i = 0
    /\ j = 0
    /\ tmp = NaN
    /\ pcs = "for_i"
    /\ result = NoResult
    /\ calls = [idx \in 0..(n - 1) |-> 0]
    /\ jn0 = n
    /\ visited = <<>>
    /\ lastArgs = NoArgs
    /\ lastScat = NoScat
    /\ failed = FALSE
    /\ same = (PcLinear(pc, db) = PcLinear(pc, TRUE))

IndepIdle ==
    /\ indep = [idx \in 0..(n - 1) |-> -1]
    /\ gj = -1
    /\ gdone = TRUE

RtIdle ==
    /\ istar = 0
    /\ jstar = 0
    /\ rtOk = TRUE

Init ==
    /\ n \in 1..MaxN
    /\ pc \in PcTargets
    /\ pn \in PnTargets
    /\ db \in BOOLEAN
    /\ kind \in Kinds
    /\ cl_logrange \in {<<0, n - 1>>, <<n - 1, 0>>}
    /\ r2 \in [0..(n - 1) -> R2Vals]
    /\ Setup
    /\ IndepIdle
    /\ RtIdle

\* for i, val in enumerate(ep): if sh[i] != 0 is false
LoopSkip ==
    /\ pcs = "for_i"
    /\ i < n
    /\ sh[i] = Fin(0)
    /\ i' = i + 1
    /\ visited' = Append(visited, i)
    /\ UNCHANGED <<inputs, pc_lin, sh, cl, cl_out, jn, j, tmp, pcs, result,
                   calls, jn0, lastArgs, lastScat, failed, same>>

\* if sh[i] != 0: for j in reversed(range(0, jn, 1))
LoopEnter ==
    /\ pcs = "for_i"
    /\ i < n
    /\ sh[i] # Fin(0)
    /\ pcs' = "for_j"
    /\ j' = ScanStart(jn)
    /\ jn0' = jn
    /\ visited' = Append(visited, i)
    /\ UNCHANGED <<inputs, pc_lin, sh, cl, cl_out, jn, i, tmp, result, calls,
                   lastArgs, lastScat, failed, same>>

\* Variant: a rejected candidate does not advance the scan.
CallRejectStuck ==
    /\ pcs = "for_j"
    /\ j >= 0
    /\ calls[i] <= n
    /\ \E scat \in Scatterings :
          LET t == srf2power_norminc(TRUE, DefaultKind, scat)
          IN  /\ ~Lt(t, pn)
              /\ tmp' = t
              /\ lastScat' = scat
    /\ lastArgs' = [db |-> TRUE, kind |-> DefaultKind]
    /\ calls' = [calls EXCEPT ![i] = @ + 1]
    /\ UNCHANGED <<inputs, pc_lin, sh, cl, cl_out, jn, i, j, pcs, result, jn0,
                   visited, failed, same>>

\* One inner iteration whose predictor call returns a value that fails the
\* test of line 91: continue with the next lower j.
CallReject ==
    /\ pcs = "for_j"
    /\ j >= 0
    /\ \E scat \in Scatterings :
          LET a == PredictorArgs(db, kind)
              t == srf2power_norminc(a.db, a.kind, scat)
          IN  /\ ~Accept(t, pn)
              /\ tmp' = t
              /\ lastArgs' = a
              /\ lastScat' = scat
              /\ same' = (same /\ SameCall(scat))
    /\ calls' = [calls EXCEPT ![i] = @ + 1]
    /\ j' = j - 1
    /\ UNCHANGED <<inputs, pc_lin, sh, cl, cl_out, jn, i, pcs, result, jn0,
                   visited, failed>>

\* One inner iteration whose predictor call returns a value that passes the
\* test of line 91: record cl[j], shrink the bound, break.
CallAccept ==
    /\ pcs = "for_j"
    /\ j >= 0
    /\ \E scat \in Scatterings :
          LET a == PredictorArgs(db, kind)
              t == srf2power_norminc(a.db, a.kind, scat)
          IN  /\ Accept(t, pn)
              /\ tmp' = t
              /\ lastArgs' = a
              /\ lastScat' = scat
              /\ same' = (same /\ SameCall(scat))
    /\ calls' = [calls EXCEPT ![i] = @ + 1]
    /\ jn' = NextBound(j, n)
    /\ cl_out' = [cl_out EXCEPT ![i] = cl[j]]
    /\ pcs' = "for_i"
    /\ i' = i + 1
    /\ UNCHANGED <<inputs, pc_lin, sh, cl, j, result, jn0, visited, failed>>

\* Variant: the failure is swallowed and the scan goes on.
CallRaiseCaught ==
    /\ pcs = "for_j"
    /\ j >= 0
    /\ calls' = [calls EXCEPT ![i] = @ + 1]
    /\ lastArgs' = [db |-> TRUE, kind |-> DefaultKind]
    /\ failed' = TRUE
    /\ j' = j - 1
    /\ UNCHANGED <<inputs, pc_lin, sh, cl, cl_out, jn, i, tmp, pcs, result, jn0,
                   visited, lastScat, same>>

\* The predictor call raises (import_module, getattr, the scattering
\* capability or integrate.quad): nothing catches it.
CallRaise ==
    /\ pcs = "for_j"
    /\ j >= 0
    /\ calls' = [calls EXCEPT ![i] = @ + 1]
    /\ lastArgs' = PredictorArgs(db, kind)
    /\ same' = (same /\ PredictorArgs(db, kind) = PredictorArgs(TRUE, DefaultKind))
    /\ failed' = TRUE
    /\ pcs' = "raised"
    /\ UNCHANGED <<inputs, pc_lin, sh, cl, cl_out, jn, i, j, tmp, result, jn0,
                   visited, lastScat>>

\* Variant: an exhausted scan reopens the whole range.
ScanExhaustedReset ==
    /\ pcs = "for_j"
    /\ j < 0
    /\ pcs' = "for_i"
    /\ i' = i + 1
    /\ jn' = n
    /\ UNCHANGED <<inputs, pc_lin, sh, cl, cl_out, j, tmp, result, calls,
                   jn0, visited, lastArgs, lastScat, failed, same>>

\* The inner range is exhausted without a break.
ScanExhausted ==
    /\ pcs = "for_j"
    /\ j < 0
    /\ pcs' = "for_i"
    /\ i' = i + 1
    /\ UNCHANGED <<inputs, pc_lin, sh, cl, cl_out, jn, j, tmp, result, calls,
                   jn0, visited, lastArgs, lastScat, failed, same>>

\* return {'ep':ep, 'sh':sh, 'cl':cl_out}
Return ==
    /\ pcs = "for_i"
    /\ i = n
    /\ pcs' = "done"
    /\ result' = [ep |-> EpGrid(n), sh |-> sh, cl |-> cl_out]
    /\ UNCHANGED <<inputs, pc_lin, sh, cl, cl_out, jn, i, j, tmp, calls, jn0,
                   visited, lastArgs, lastScat, failed, same>>

\* ------------------------------------------------------- the solver alone
Next ==
    \/ LoopSkip /\ UNCHANGED <<indepVars, rtVars>>
    \/ LoopEnter /\ UNCHANGED <<indepVars, rtVars>>
    \/ CallReject /\ UNCHANGED <<indepVars, rtVars>>
    \/ CallAccept /\ UNCHANGED <<indepVars, rtVars>>
    \/ CallRaise /\ UNCHANGED <<indepVars, rtVars>>
    \/ ScanExhausted /\ UNCHANGED <<indepVars, rtVars>>
    \/ Return /\ UNCHANGED <<indepVars, rtVars>>

Spec == Init /\ [][Next]_vars

\* ------------------- the solver beside the search restarted from jn = n
\* The restarted search (each permittivity index scanned from n-1 down,
\* whatever earlier indices accepted) runs on the same predicted powers:
\* it evaluates alone the candidates above the solver's window, then sees
\* the values the solver gets.
InitIndep ==
    /\ n \in 1..MaxN
    /\ pc \in PcTargets
    /\ pn \in PnTargets
    /\ db = TRUE
    /\ kind = DefaultKind
    /\ cl_logrange = <<0, n - 1>>
    /\ r2 \in [0..(n - 1) -> R2Vals]
    /\ Setup
    /\ IndepIdle
    /\ RtIdle

\* the restarted search begins its scan of index i at the top of the grid
IndepEnter ==
    /\ gj' = n - 1
    /\ gdone' = FALSE
    /\ UNCHANGED indep

\* the restarted search evaluates a candidate above the solver's window
IndepCall ==
    /\ pcs = "for_j"
    /\ ~gdone
    /\ gj >= jn0
    /\ \E scat \in Scatterings :
          LET a == PredictorArgs(db, kind)
              t == srf2power_norminc(a.db, a.kind, scat)
          IN  IF Accept(t, pn)
              THEN /\ indep' = [indep EXCEPT ![i] = gj]
                   /\ gdone' = TRUE
                   /\ UNCHANGED gj
              ELSE /\ gj' = gj - 1
                   /\ UNCHANGED <<indep, gdone>>
    /\ UNCHANGED <<core, rtVars>>

\* inside the window both searches are at the same candidate
InWindow == gdone \/ gj = j

IndepReject ==
    /\ InWindow
    /\ gj' = (IF gdone THEN gj ELSE j - 1)
    /\ UNCHANGED <<indep, gdone>>

IndepAccept ==
    /\ InWindow
    /\ indep' = (IF gdone THEN indep ELSE [indep EXCEPT ![i] = j])
    /\ gdone' = TRUE
    /\ UNCHANGED gj

IndepExhausted ==
    /\ InWindow
    /\ gdone' = TRUE
    /\ UNCHANGED <<indep, gj>>

NextIndep ==
    \/ LoopSkip /\ UNCHANGED <<indepVars, rtVars>>
    \/ LoopEnter /\ IndepEnter /\ UNCHANGED rtVars
    \/ IndepCall
    \/ CallReject /\ IndepReject /\ UNCHANGED rtVars
    \/ CallAccept /\ IndepAccept /\ UNCHANGED rtVars
    \/ ScanExhausted /\ IndepExhausted /\ UNCHANGED rtVars
    \/ Return /\ UNCHANGED <<indepVars, rtVars>>

SpecIndep == InitIndep /\ [][NextIndep]_vars

\* ------------------------------------- the solver fed by the predictor
\* (pc, pn) come from the forward predictor at (ep[istar], sh*, cl[jstar])
\* with sh* > 0 on a grid of at least two samples: pn is the predictor's dB
\* output there (finite) and pc admits a nonzero rms height at ep[istar].
InitRT ==
    /\ n \in 2..MaxN
    /\ pc \in PcTargets
    /\ pn \in {srf2power_norminc(TRUE, DefaultKind, scat) : scat \in Scatterings}
    /\ pn.k = "fin"
    /\ db = TRUE
    /\ kind = DefaultKind
    /\ cl_logrange = <<0, n - 1>>
    /\ r2 \in [0..(n - 1) -> R2Vals]
    /\ Setup
    /\ IndepIdle
    /\ istar \in 0..(n - 1)
    /\ jstar \in 0..(n - 1)
    /\ sh[istar] # Fin(0)
    /\ rtOk = TRUE

\* A predictor call of the solver during the round trip.  The predictor is a
\* pure function and the solver's sh[istar] is taken to reproduce sh*
\* exactly: the call at (istar, jstar) returns pn again.  At ep* the
\* predicted power is taken non-decreasing in the correlation length (the
\* relationship the search assumes): no NaN, nothing below pn above cl*,
\* nothing above pn below cl*.
RtCall ==
    /\ (i = istar /\ j = jstar) => tmp' = pn
    /\ (i = istar /\ j > jstar) => (~IsNaN(tmp') /\ ~Lt(tmp', pn))
    /\ (i = istar /\ j < jstar) => (~IsNaN(tmp') /\ ~Lt(pn, tmp'))
    /\ rtOk' = (rtOk /\ (i = istar =>
                    /\ j < jstar => (tmp'.k = "fin" /\ Lt(tmp', pn))
                    /\ j > jstar => ~(tmp'.k = "fin" /\ Lt(tmp', pn))))
    /\ UNCHANGED <<istar, jstar>>

NextRT ==
    \/ LoopSkip /\ UNCHANGED <<indepVars, rtVars>>
    \/ LoopEnter /\ UNCHANGED <<indepVars, rtVars>>
    \/ CallReject /\ RtCall /\ UNCHANGED indepVars
    \/ CallAccept /\ RtCall /\ UNCHANGED indepVars
    \/ ScanExhausted /\ UNCHANGED <<indepVars, rtVars>>
    \/ Return /\ UNCHANGED <<indepVars, rtVars>>

SpecRT == InitRT /\ [][NextRT]_vars

\* ------------------------------------------------------------ vocabulary
Indices == 0..(n - 1)
Found(idx) == ~IsNaN(cl_out[idx])
\* grid index of a correlation length of the grid
IdxOf(v) == CHOOSE jj \in Indices : cl[jj] = v
\* t is finite and strictly below the target p
FiniteBelow(t, p) ==
    /\ t.k = "fin"
    /\ \/ p = PInf
       \/ p.k = "fin" /\ t.v < p.v
\* a <= b on finite values
LeqFin(a, b) == a.k = "fin" /\ b.k = "fin" /\ a.v <= b.v
\* a predictor call made in this step returned a value
CallReturned == pcs = "for_j" /\ calls'[i] = calls[i] + 1 /\ ~failed'
RECURSIVE SumCalls(_)
SumCalls(m) == IF m = 0 THEN 0 ELSE calls[m - 1] + SumCalls(m - 1)

\* ------------------------------------------------------------------- C3
\* C3: at every permittivity index where the analytic rms-height formula
\* yields NaN, sh is exactly 0, cl_out stays NaN and no predictor call is
\* made for that index, in every state of the run and in the returned value.
Thm_C3 ==
    \A idx \in Indices :
        IsNaN(ShFormula(r2[idx], pc_lin)) =>
            /\ sh[idx] = Fin(0)
            /\ IsNaN(cl_out[idx])
            /\ calls[idx] = 0
            /\ pcs = "done" => (result.sh[idx] = Fin(0) /\ IsNaN(result.cl[idx]))

\* A finished run in which an index without rms height was passed after an
\* earlier index had shrunk the bound.
Wit_C3 ==
    /\ pcs = "done"
    /\ \E idx \in Indices :
          /\ IsNaN(ShFormula(r2[idx], pc_lin))
          /\ \E e \in Indices : e < idx /\ Found(e)
          /\ \E l \in Indices : l > idx /\ calls[l] > 0
    /\ jn < n

Thm_C5 ==
    [][ /\ (pcs = "for_i" /\ pcs' = "for_j") => (j' = jn - 1 /\ calls[i] = 0)
        /\ CallReturned =>
              /\ j >= 0
              /\ calls[i] = jn0 - 1 - j
              /\ IF FiniteBelow(tmp', pn)
                 THEN /\ cl_out' = [cl_out EXCEPT ![i] = cl[j]]
                      /\ jn' = (IF j + 1 < n THEN j + 1 ELSE n)
                      /\ pcs' = "for_i"
                      /\ i' = i + 1
                 ELSE /\ j' = j - 1
                      /\ pcs' = "for_j"
                      /\ UNCHANGED <<cl_out, jn, i>>
        /\ \A e \in Indices : e < i => calls'[e] = calls[e]
      ]_vars

\* Just after an acceptance that followed at least one rejection in the
\* same scan.
Wit_C5 ==
    /\ pcs = "for_i"
    /\ i > 0
    /\ Found(i - 1)
    /\ calls[i - 1] >= 2
    /\ jn = IdxOf(cl_out[i - 1]) + 1
    /\ FiniteBelow(tmp, pn)

\* ------------------------------------------------------------------- C6
\* C6: once a predictor call has raised, the run is aborted: no value is
\* returned, the failing call was made once, and no further step is taken.
Thm_C6 ==
    /\ [](failed => (pcs = "raised" /\ result = NoResult /\ calls[i] = jn0 - j))
    /\ [][~failed]_vars

\* A run aborted after an earlier permittivity index had found a value.
Wit_C6 ==
    /\ pcs = "raised"
    /\ failed
    /\ \E e \in Indices : e < i /\ Found(e)

\* ------------------------------------------------------------------- C7
\* C7: a scan in which every candidate of the window was evaluated and none
\* accepted leaves cl_out[i] NaN, jn and the rest of cl_out unchanged, raises
\* nothing and moves on to index i+1.
Thm_C7 ==
    [][ /\ (pcs = "for_j" /\ j < 0) =>
              /\ calls[i] = jn0
              /\ ~FiniteBelow(tmp, pn)
              /\ IsNaN(cl_out[i])
              /\ cl_out' = cl_out
              /\ jn' = jn
              /\ jn = jn0
              /\ pcs' = "for_i"
              /\ i' = i + 1
              /\ ~failed'
        /\ (CallReturned /\ ~FiniteBelow(tmp', pn)) => UNCHANGED <<cl_out, jn>>
      ]_vars

\* After an exhausted scan that followed an earlier success, with the next
\* index still to come.
Wit_C7 ==
    /\ pcs = "for_i"
    /\ i > 1
    /\ i < n
    /\ sh[i - 1] # Fin(0)
    /\ ~Found(i - 1)
    /\ calls[i - 1] = jn
    /\ Found(0)

\* ------------------------------------------------------------------- C8
\* C8: whatever db and kind are, the coherent target is converted from dB to
\* linear, the rms heights derive from that conversion, and every predictor
\* call is made with db = True and the default kind, the value compared
\* being the dB power of the default kind; the run has the pc, the predictor
\* arguments and the predictions of the run started with db = True and the
\* default kind, hence its ep, sh and cl.
Thm_C8 ==
    /\ same
    /\ pc_lin = Pow10Tenth(pc)
    /\ sh = [idx \in Indices |-> IF IsNaN(ShFormula(r2[idx], Pow10Tenth(pc)))
                                  THEN Fin(0)
                                  ELSE ShFormula(r2[idx], Pow10Tenth(pc))]
    /\ lastArgs \in {NoArgs, [db |-> TRUE, kind |-> DefaultKind]}
    /\ lastScat # NoScat => tmp = Log10x10(lastScat[DefaultKind])

\* A finished run with db unset and a non-default kind that found a value.
Wit_C8 ==
    /\ pcs = "done"
    /\ ~db
    /\ kind # DefaultKind
    /\ lastArgs # NoArgs
    /\ \E e \in Indices : Found(e)

\* ------------------------------------------------------------------- C9
\* C9 as stated: every non-NaN cl_out[i] is a grid value, the accepted grid
\* indices are non-increasing in the permittivity index, and so are the
\* selected correlation lengths.
Orig_C9 ==
    /\ \A e \in Indices : Found(e) => \E jj \in Indices : cl_out[e] = cl[jj]
    /\ \A e1, e2 \in Indices :
          (e1 < e2 /\ Found(e1) /\ Found(e2)) =>
              /\ IdxOf(cl_out[e2]) <= IdxOf(cl_out[e1])
              /\ LeqFin(cl_out[e2], cl_out[e1])

\* C9 amended: every non-NaN cl_out[i] is a grid value and the accepted grid
\* indices are non-increasing in the permittivity index; the selected
\* correlation lengths are non-increasing when the grid ascends
\* (cl_logrange[0] <= cl_logrange[1]) and non-decreasing when it descends.
Thm_C9 ==
    /\ \A e \in Indices : Found(e) => \E jj \in Indices : cl_out[e] = cl[jj]
    /\ \A e1, e2 \in Indices :
          (e1 < e2 /\ Found(e1) /\ Found(e2)) =>
              /\ IdxOf(cl_out[e2]) <= IdxOf(cl_out[e1])
              /\ cl_logrange[1] <= cl_logrange[2] => LeqFin(cl_out[e2], cl_out[e1])
              /\ cl_logrange[1] >= cl_logrange[2] => LeqFin(cl_out[e1], cl_out[e2])

\* A finished run on a descending grid where a later index accepted a
\* strictly lower grid index than an earlier one.
Wit_C9 ==
    /\ pcs = "done"
    /\ cl_logrange[1] > cl_logrange[2]
    /\ \E e1, e2 \in Indices :
          /\ e1 < e2
          /\ Found(e1)
          /\ Found(e2)
          /\ IdxOf(cl_out[e2]) < IdxOf(cl_out[e1])

\* ------------------------------------------------------------------ C10
\* Steps left, at most: decreases with every step of the solver.
Variant ==
    IF pcs \in {"done", "raised"} THEN 0
    ELSE (n - i) * (n + 3) + (IF pcs = "for_j" THEN j + 2 ELSE n + 2)

\* C10: every step brings the run closer to its end; the permittivity
\* indices are visited once each in increasing order; an index with nonzero
\* sh gets at most jn <= n predictor calls and an index with sh = 0 none, at
\* most n*n in total; the returned ep, sh and cl have length n.
Thm_C10 ==
    /\ [][Variant' < Variant]_vars
    /\ [](Variant >= 0)
    /\ [](/\ visited = [k \in 1..Len(visited) |-> k - 1]
          /\ Len(visited) = (IF pcs = "for_i" \/ pcs = "done" THEN i ELSE i + 1)
          /\ \A e \in Indices :
                /\ calls[e] <= n
                /\ sh[e] = Fin(0) => calls[e] = 0
                /\ e > i => calls[e] = 0
          /\ (pcs \in {"for_j", "raised"}) => (calls[i] <= jn0 /\ jn0 <= n)
          /\ SumCalls(n) <= n * n
          /\ pcs = "done" =>
                /\ i = n
                /\ DOMAIN result.ep = Indices
                /\ DOMAIN result.sh = Indices
                /\ DOMAIN result.cl = Indices)

\* A finished run that made the largest possible number of calls at some
\* index and skipped another.
Wit_C10 ==
    /\ pcs = "done"
    /\ n > 1
    /\ \E e \in Indices : calls[e] = n
    /\ \E e \in Indices : sh[e] = Fin(0)

\* ------------------------------------------------------------------- C2
IndepCl(idx) == IF indep[idx] = -1 THEN NaN ELSE cl[indep[idx]]
IndepNonIncreasing ==
    \A e1, e2 \in Indices :
        (e1 < e2 /\ indep[e1] # -1 /\ indep[e2] # -1) => indep[e2] <= indep[e1]

\* C2 as stated: the search with the shared bound returns, at every
\* permittivity index, what the search restarted from jn = n returns.
Orig_C2 == pcs = "done" => \A idx \in Indices : result.cl[idx] = IndepCl(idx)

\* C2 amended: the two searches return the same cl_out exactly when the
\* indices the restarted search accepts are non-increasing in the
\* permittivity index; in any case, where the shared-bound search accepts
\* an index the restarted search accepts one too, at the same or a higher
\* grid index.
Thm_C2 ==
    pcs = "done" =>
        /\ (\A idx \in Indices : result.cl[idx] = IndepCl(idx)) <=> IndepNonIncreasing
        /\ \A idx \in Indices :
              Found(idx) => (indep[idx] # -1 /\ IdxOf(cl_out[idx]) <= indep[idx])

\* Both searches agree on a run where the shared bound had shrunk.
Wit_C2 ==
    /\ pcs = "done"
    /\ IndepNonIncreasing
    /\ \E e1, e2 \in Indices :
          e1 < e2 /\ indep[e1] # -1 /\ indep[e2] # -1 /\ indep[e2] < indep[e1]
    /\ \A idx \in Indices : result.cl[idx] = IndepCl(idx)

NoEarlierBelow ==
    \A e \in Indices : (e < istar /\ Found(e)) => IdxOf(cl_out[e]) >= jstar - 1

====
